---------------------------- MODULE Spec2Model ----------------------------
(***************************************************************************)
(* Model of the Notion persistence adapter                                 *)
(* (src/src/features/aws-note/infrastructure/notion-client.ts):            *)
(*   - the property codec: buildProperties / parseNotionPage /             *)
(*     parseChoiceExplanations, on character sequences;                    *)
(*   - the store protocol: upsertQuestionNote / findExistingPage /         *)
(*     getAllQuestions against a Notion database, with the errors they     *)
(*     throw;                                                              *)
(*   - the category normalization of the Gemini client.                    *)
(*                                                                         *)
(* A string is a sequence of characters, a character a one-element string. *)
(* The module text is ASCII, so the non-ASCII literals of the source are   *)
(* written with stand-ins, each an atom of the alphabet:                   *)
(*    "<"  for the literal "【選択肢"     ">"  for "】"                      *)
(*    "v"  for "✓"    "x"  for "✗"    "T"  for "正解"    "N"  for "不"       *)
(*    "*"  for "•"                                                         *)
(***************************************************************************)
EXTENDS Integers, Sequences, FiniteSets, TLC

(***************************************************************************)
(* Bounds of the model.                                                    *)
(***************************************************************************)
MaxChoices == 3
MaxCalls == 3
MaxScans == 1
MaxPages == 3
MaxCatLen == 3

(***************************************************************************)
(* Characters and the string functions of JavaScript the code uses.        *)
(***************************************************************************)
NL == "\n"
MarkOpen == "<"
MarkClose == ">"
Bullet == "*"
CorrectGlyph == <<"v", " ", "T">>
IncorrectGlyph == <<"x", " ", "N", "T">>

Digits == <<"0", "1", "2", "3", "4", "5", "6", "7", "8", "9">>

IsDigit(c) == \E i \in 1..10 : Digits[i] = c

IsSpace(c) == c \in {" ", NL}

Min(a, b) == IF a <= b THEN a ELSE b

RECURSIVE NumStr(_)
NumStr(n) ==
  IF n < 10 THEN <<Digits[n + 1]>>
  ELSE NumStr(n \div 10) \o <<Digits[(n % 10) + 1]>>

RECURSIVE TrimStart(_)
TrimStart(s) ==
  IF s # <<>> /\ IsSpace(Head(s)) THEN TrimStart(Tail(s)) ELSE s

RECURSIVE TrimEnd(_)
TrimEnd(s) ==
  IF s # <<>> /\ IsSpace(s[Len(s)])
  THEN TrimEnd(SubSeq(s, 1, Len(s) - 1))
  ELSE s

Trim(s) == TrimEnd(TrimStart(s))

StartsWith(s, p) == Len(p) <= Len(s) /\ SubSeq(s, 1, Len(p)) = p

Includes(s, sub) ==
  \E i \in 0..(Len(s) - Len(sub)) : SubSeq(s, i + 1, i + Len(sub)) = sub

RECURSIVE SplitAcc(_, _, _)
SplitAcc(s, sep, cur) ==
  IF s = <<>> THEN <<cur>>
  ELSE IF StartsWith(s, sep)
       THEN <<cur>> \o SplitAcc(SubSeq(s, Len(sep) + 1, Len(s)), sep, <<>>)
       ELSE SplitAcc(Tail(s), sep, Append(cur, Head(s)))

Split(s, sep) == SplitAcc(s, sep, <<>>)

RECURSIVE Join(_, _)
Join(parts, sep) ==
  IF parts = <<>> THEN <<>>
  ELSE IF Len(parts) = 1 THEN parts[1]
  ELSE parts[1] \o sep \o Join(Tail(parts), sep)

RECURSIVE DigitRun(_)
DigitRun(s) ==
  IF s # <<>> /\ IsDigit(Head(s)) THEN 1 + DigitRun(Tail(s)) ELSE 0

\* Length of the match of /【選択肢\d+】/ at the start of s, 0 when none.
MarkerLen(s) ==
  IF s # <<>> /\ Head(s) = MarkOpen
  THEN LET d == DigitRun(Tail(s))
       IN IF d >= 1 /\ Len(s) >= d + 2 /\ s[d + 2] = MarkClose
          THEN d + 2
          ELSE 0
  ELSE 0

RECURSIVE SplitMarkerAcc(_, _)
SplitMarkerAcc(s, cur) ==
  IF s = <<>> THEN <<cur>>
  ELSE IF MarkerLen(s) > 0
       THEN <<cur>> \o SplitMarkerAcc(SubSeq(s, MarkerLen(s) + 1, Len(s)), <<>>)
       ELSE SplitMarkerAcc(Tail(s), Append(cur, Head(s)))

\* text.split(/【選択肢\d+】/)
SplitMarker(s) == SplitMarkerAcc(s, <<>>)

\* line.replace(/^\d+\.\s*/, "")
StripNumber(line) ==
  LET d == DigitRun(line)
  IN IF d >= 1 /\ Len(line) > d /\ line[d + 1] = "."
     THEN TrimStart(SubSeq(line, d + 2, Len(line)))
     ELSE line

NonEmpty(s) == s # <<>>

(***************************************************************************)
(* The domain entity ExamQuestionNote.  An optional string field           *)
(* (architectureDiagram?, similarQuestionsHint?) is a sequence holding no  *)
(* string (undefined) or one string.  The value null is Null.              *)
(***************************************************************************)
Null == [isNull |-> TRUE]

\* WellArchitectedPillar.  A letter stands for a word of the pillar's name:
\* "c-o" cost-optimization, "p-e" performance-efficiency, "r" reliability,
\* "s" security, "o-e" operational-excellence, "u" sustainability.
WellArchitectedPillar ==
  { <<"c", "-", "o">>, <<"p", "-", "e">>, <<"r">>, <<"s">>,
    <<"o", "-", "e">>, <<"u">> }

\* JavaScript truthiness of an optional string: present and not "".
\* A test of an optional field that only tells undefined from a string.
IsDefined(opt) == opt # <<>>

Truthy(opt) == opt # <<>> /\ opt[1] # <<>>

(***************************************************************************)
(* NotionClient.buildProperties: the property bag of a note, a function    *)
(* from property names to values (title and rich_text: the text content,   *)
(* number: the number, multi_select: the sequence of names).               *)
(***************************************************************************)
RequiredProperties ==
  { "Question Text", "Choices", "Correct Answer", "Correct Choice Text",
    "Explanation", "Related Services", "Well-Architected Category",
    "Choice Explanations", "Learning Points" }

OptionalProperties == { "Architecture Diagram", "Similar Questions Hint" }

choicesText(note) ==
  Join([i \in 1..Len(note.choices) |->
          NumStr(i) \o <<".", " ">> \o note.choices[i]], <<NL>>)

choiceExplanationSection(ce) ==
  <<MarkOpen>> \o NumStr(ce.choiceNumber) \o <<MarkClose>>
    \o (IF ce.isCorrect THEN CorrectGlyph ELSE IncorrectGlyph)
    \o <<NL>> \o ce.choiceText \o <<NL>> \o ce.explanation

choiceExplanationsText(note) ==
  Join([i \in 1..Len(note.choiceExplanations) |->
          choiceExplanationSection(note.choiceExplanations[i])], <<NL, NL>>)

learningPointsText(note) == Join(note.learningPoints, <<NL, Bullet, " ">>)

requiredProperties(note) ==
  [k \in RequiredProperties |->
     CASE k = "Question Text" -> note.questionText
       [] k = "Choices" -> choicesText(note)
       [] k = "Correct Answer" -> note.correctAnswer
       [] k = "Correct Choice Text" -> note.correctChoiceText
       [] k = "Explanation" -> note.explanation
       [] k = "Related Services" -> note.relatedServices
       [] k = "Well-Architected Category" -> note.wellArchitectedCategories
       [] k = "Choice Explanations" -> choiceExplanationsText(note)
       [] k = "Learning Points" -> learningPointsText(note)]

\* A buildProperties that writes the optional properties of every note,
\* with an empty text when the note has none.
optionalPropertiesAlways(note) ==
  [k \in OptionalProperties |->
     IF k = "Architecture Diagram"
     THEN (IF Truthy(note.architectureDiagram)
           THEN note.architectureDiagram[1] ELSE <<>>)
     ELSE (IF Truthy(note.similarQuestionsHint)
           THEN note.similarQuestionsHint[1] ELSE <<>>)]

optionalProperties(note) ==
  LET present ==
        { k \in OptionalProperties :
            \/ k = "Architecture Diagram" /\ Truthy(note.architectureDiagram)
            \/ k = "Similar Questions Hint" /\ Truthy(note.similarQuestionsHint) }
  IN [k \in present |->
        IF k = "Architecture Diagram"
        THEN note.architectureDiagram[1]
        ELSE note.similarQuestionsHint[1]]

buildProperties(note) == optionalProperties(note) @@ requiredProperties(note)

(***************************************************************************)
(* NotionClient.parseChoiceExplanations.                                   *)
(***************************************************************************)
\* choices.findIndex((c) => c === choiceText || c.includes(choiceText)),
\* 0-based from position i on, -1 when no choice matches.
RECURSIVE findChoiceIndex(_, _, _)
findChoiceIndex(choices, choiceText, i) ==
  IF i > Len(choices) THEN -1
  ELSE IF choices[i] = choiceText \/ Includes(choices[i], choiceText)
       THEN i - 1
       ELSE findChoiceIndex(choices, choiceText, i + 1)

\* The body of the loop over the sections: the entries one section adds.
parseSection(section, choices) ==
  LET lines == Split(Trim(section), <<NL>>)
      firstLine == lines[1]
      isCorrect == Includes(firstLine, CorrectGlyph)
      choiceText == Trim(lines[2])
      explanation == Trim(Join(SubSeq(lines, 3, Len(lines)), <<NL>>))
      choiceNumber == findChoiceIndex(choices, choiceText, 1)
  IN IF Len(lines) < 2 THEN <<>>
     ELSE IF choiceNumber = -1 THEN <<>>
     ELSE << [choiceNumber |-> choiceNumber + 1,
              choiceText |-> choiceText,
              isCorrect |-> isCorrect,
              explanation |-> explanation] >>

RECURSIVE parseSections(_, _)
parseSections(sections, choices) ==
  IF sections = <<>> THEN <<>>
  ELSE parseSection(Head(sections), choices)
         \o parseSections(Tail(sections), choices)

\* "パースに失敗した場合は、choicesから生成"
explanationsFromChoices(choices, correctAnswer) ==
  [i \in 1..Len(choices) |->
     [choiceNumber |-> i,
      choiceText |-> choices[i],
      isCorrect |-> (i = correctAnswer),
      explanation |-> <<>>]]

\* The entries pushed for the choice numbers no parsed section has.
RECURSIVE missingExplanations(_, _, _)
missingExplanations(explanations, choices, i) ==
  IF i > Len(choices) THEN <<>>
  ELSE (IF \E j \in 1..Len(explanations) : explanations[j].choiceNumber = i
        THEN <<>>
        ELSE << [choiceNumber |-> i,
                 choiceText |-> choices[i],
                 isCorrect |-> FALSE,
                 explanation |-> <<>>] >>)
         \o missingExplanations(explanations, choices, i + 1)

\* explanations.sort((a, b) => a.choiceNumber - b.choiceNumber): stable.
RECURSIVE sortByChoiceNumber(_, _, _)
sortByChoiceNumber(explanations, k, max) ==
  IF k > max THEN <<>>
  ELSE SelectSeq(explanations, LAMBDA e : e.choiceNumber = k)
         \o sortByChoiceNumber(explanations, k + 1, max)

parseChoiceExplanations(text, choices, correctAnswer) ==
  LET sections == SelectSeq(SplitMarker(text), LAMBDA s : Trim(s) # <<>>)
      explanations == parseSections(sections, choices)
      completed == explanations \o missingExplanations(explanations, choices, 1)
  IN IF explanations = <<>>
     THEN explanationsFromChoices(choices, correctAnswer)
     ELSE sortByChoiceNumber(completed, 1, Len(choices))

(***************************************************************************)
(* NotionClient.parseNotionPage.  A page is [id, properties]; a partial    *)
(* page object of the API has no properties.                               *)
(***************************************************************************)
UpperCase == <<"C", "P", "R", "S", "O", "E", "U">>
LowerCase == <<"c", "p", "r", "s", "o", "e", "u">>

toLowerCaseChar(c) ==
  IF \E i \in 1..Len(UpperCase) : UpperCase[i] = c
  THEN LowerCase[CHOOSE i \in 1..Len(UpperCase) : UpperCase[i] = c]
  ELSE c

toLowerCase(s) == [i \in 1..Len(s) |-> toLowerCaseChar(s[i])]

\* s.replace(/\s+/g, "-")
RECURSIVE replaceWhitespaceRuns(_)
replaceWhitespaceRuns(s) ==
  IF s = <<>> THEN <<>>
  ELSE IF IsSpace(Head(s))
       THEN <<"-">> \o replaceWhitespaceRuns(TrimStart(s))
       ELSE <<Head(s)>> \o replaceWhitespaceRuns(Tail(s))

normalizeCategory(cat) == replaceWhitespaceRuns(toLowerCase(cat))

(***************************************************************************)
(* The category normalization of GeminiClient.analyzeQuestion.  In a       *)
(* category name a letter stands for a word, in upper case when the word   *)
(* has an upper-case letter: "C O" is "Cost Optimization".                 *)
(***************************************************************************)
\* The object literal mapping: its own keys and their values.
mapping ==
  { << <<"C", " ", "O">>, <<"c", "-", "o">> >>,
    << <<"c", " ", "o">>, <<"c", "-", "o">> >>,
    << <<"P", " ", "E">>, <<"p", "-", "e">> >>,
    << <<"p", " ", "e">>, <<"p", "-", "e">> >>,
    << <<"R">>, <<"r">> >>,
    << <<"r">>, <<"r">> >>,
    << <<"S">>, <<"s">> >>,
    << <<"s">>, <<"s">> >>,
    << <<"O", " ", "E">>, <<"o", "-", "e">> >>,
    << <<"o", " ", "e">>, <<"o", "-", "e">> >>,
    << <<"U">>, <<"u">> >>,
    << <<"u">>, <<"u">> >> }

\* A key mapping inherits from Object.prototype, the string "constructor"
\* (one atom here), and the value mapping[key] then has, which is no string.
InheritedKey == <<"constructor">>
InheritedValue == <<"[Function: Object]">>

\* typeof cat === "string"
IsString(cat) == cat # InheritedValue

\* A table looked up from the slug to the name.
mappingReversed(cat) ==
  IF \E e \in mapping : e[2] = cat
  THEN <<(CHOOSE e \in mapping : e[2] = cat)[1]>>
  ELSE <<>>

\* mapping[cat], or <<>> for undefined
mappingAt(cat) ==
  IF \E e \in mapping : e[1] = cat
  THEN <<(CHOOSE e \in mapping : e[1] = cat)[2]>>
  ELSE IF cat = InheritedKey THEN <<InheritedValue>>
  ELSE <<>>

\* (cat) => typeof cat !== "string" ? cat
\*            : mapping[cat] || cat.toLowerCase().replace(/\s+/g, "-")
normalizeWellArchitectedCategory(cat) ==
  IF ~IsString(cat) THEN cat
  ELSE IF mappingAt(cat) # <<>> /\ mappingAt(cat)[1] # <<>>
       THEN mappingAt(cat)[1]
       ELSE replaceWhitespaceRuns(toLowerCase(cat))

\* props[k]?....content || dflt, and props[k]?.number, props[k]?.multi_select
prop(props, k, dflt) == IF k \in DOMAIN props THEN props[k] ELSE dflt

\* A parse of the choices that keeps the blank lines.
parseChoicesKeepBlank(choicesText_) ==
  [i \in 1..Len(Split(choicesText_, <<NL>>)) |->
     Trim(StripNumber(Split(choicesText_, <<NL>>)[i]))]

parseChoices(choicesText_) ==
  SelectSeq([i \in 1..Len(Split(choicesText_, <<NL>>)) |->
               Trim(StripNumber(Split(choicesText_, <<NL>>)[i]))],
            NonEmpty)

parseLearningPoints(text) ==
  SelectSeq([i \in 1..Len(Split(text, <<NL, Bullet, " ">>)) |->
               Trim(Split(text, <<NL, Bullet, " ">>)[i])],
            NonEmpty)

optionalText(props, k) ==
  IF prop(props, k, <<>>) = <<>> THEN <<>> ELSE <<props[k]>>

parsePageProperties(props) ==
  LET questionText == prop(props, "Question Text", <<>>)
      choices == parseChoices(prop(props, "Choices", <<>>))
      correctAnswer == prop(props, "Correct Answer", 0)
      categoriesRaw == prop(props, "Well-Architected Category", <<>>)
  IN IF questionText = <<>> THEN Null
     ELSE IF Len(choices) = 0 THEN Null
     ELSE IF correctAnswer = 0 \/ correctAnswer < 1
               \/ correctAnswer > Len(choices) THEN Null
     ELSE [questionText |-> questionText,
           choices |-> choices,
           correctAnswer |-> correctAnswer,
           correctChoiceText |-> prop(props, "Correct Choice Text", <<>>),
           explanation |-> prop(props, "Explanation", <<>>),
           relatedServices |-> prop(props, "Related Services", <<>>),
           wellArchitectedCategories |->
             [i \in 1..Len(categoriesRaw) |-> normalizeCategory(categoriesRaw[i])],
           choiceExplanations |->
             parseChoiceExplanations(prop(props, "Choice Explanations", <<>>),
                                     choices, correctAnswer),
           learningPoints |->
             parseLearningPoints(prop(props, "Learning Points", <<>>)),
           architectureDiagram |-> optionalText(props, "Architecture Diagram"),
           similarQuestionsHint |-> optionalText(props, "Similar Questions Hint")]

\* Reading page.properties of a partial page object gives undefined, the
\* first property access throws, and the catch clause returns null.
parseNotionPage(page) ==
  IF "properties" \notin DOMAIN page THEN Null
  ELSE parsePageProperties(page.properties)

(***************************************************************************)
(* State.                                                                  *)
(***************************************************************************)
VARIABLES
  cpc,        \* codec run: "input", "encoded", "decoded"
  cnote,      \* the note given to buildProperties
  cpage,      \* the page that holds the built properties
  cedited,    \* whether the page was edited in the store after the write
  cresult     \* what parseNotionPage returned

VARIABLES
  npc,        \* normalizer run: "off", "input", "once", "twice"
  nimpl,      \* the normalizer run: "gemini" or "notion"
  ncat,       \* the category name given to it
  nonce,      \* the name normalized
  ntwice      \* the normalized name normalized again

nvars == <<npc, nimpl, ncat, nonce, ntwice>>

VARIABLES
  ppc,        \* server action run: "off", "called", "executing", "done"
  penv,       \* the environment variables that are set
  plog,       \* the calls the action made to the Gemini API
  presult     \* what createExamQuestionNote returned

pvars == <<ppc, penv, plog, presult>>

cvars == <<cpc, cnote, cpage, cedited, cresult, nvars, pvars>>

VARIABLES
  store,           \* the Notion database: the sequence of its pages
  started,         \* number of upsertQuestionNote calls started so far
  upc,             \* per caller: "idle", "finding", "writing", "returned", "thrown"
  unote,           \* per caller: the note argument of the current call
  existingPageId,  \* per caller: the local existingPageId (0 is null)
  uwrite,          \* per caller: the write request in flight
  uresult,         \* per caller: the identifier returned (0: none)
  ulog,            \* per caller: the requests of the call and their answers
  uanswer,         \* per caller: the store's answer to the title query
                   \*   (-2 none yet, -1 failure, 0 no hit, else first hit)
  uapplied,        \* per caller: the write the store applied for the call
  uoverlap,        \* per caller: whether its title query was answered while
                   \*   the write of the other caller's call was in flight
  run,             \* per caller: the consecutive calls with the same note
  schema,          \* the names of the properties the database has
  uerror           \* per caller: the failure of the write and the message
                   \*   of the error the call threw

uvars ==
  <<store, started, upc, unote, existingPageId, uwrite, uresult, ulog,
    uanswer, uapplied, uoverlap, run, schema, uerror>>

VARIABLES
  scans,           \* number of getAllQuestions calls started so far
  spc,             \* "idle", "loop", "awaiting", "returned", "thrown"
  questions,       \* the local questions
  hasMore,         \* the local hasMore
  startCursor,     \* the local startCursor (0 is undefined)
  sreq,            \* the start_cursor of the last page request issued
  slast,           \* the last response received
  nreq,            \* number of page requests issued by the call
  nresp,           \* number of responses received by the call
  scovered,        \* the results of all responses received, in order
  sfailed,         \* whether a page request of the call failed
  sdirty,          \* whether the store was written since the call began
  serror           \* the failure of the page request and the message of
                   \*   the error the call threw

svars ==
  <<scans, spc, questions, hasMore, startCursor, sreq, slast, nreq, nresp,
    scovered, sfailed, sdirty, serror>>

vars == <<cvars, uvars, svars>>

\* The two concurrent invocations of the server action.
Callers == {"c1", "c2"}

NoRequest == [kind |-> "none", page_id |-> 0, properties |-> <<>>]

NoRun == [note |-> Null, ids |-> <<>>, quiet |-> FALSE, findOk |-> FALSE,
          matches |-> 0]

NoResponse == [results |-> <<>>, has_more |-> FALSE, next_cursor |-> 0]

NoError == [failure |-> <<>>, message |-> <<>>]

\* No call of upsertQuestionNote is in progress.
UpsertIdle ==
  /\ upc = [c \in Callers |-> "idle"]
  /\ unote = [c \in Callers |-> Null]
  /\ existingPageId = [c \in Callers |-> 0]
  /\ uwrite = [c \in Callers |-> NoRequest]
  /\ uresult = [c \in Callers |-> 0]
  /\ ulog = [c \in Callers |-> <<>>]
  /\ uanswer = [c \in Callers |-> -2]
  /\ uapplied = [c \in Callers |-> NoRequest]
  /\ uoverlap = [c \in Callers |-> FALSE]
  /\ run = [c \in Callers |-> NoRun]
  /\ uerror = [c \in Callers |-> NoError]

\* No call of getAllQuestions is in progress.
ScanIdle ==
  /\ spc = "idle"
  /\ questions = <<>>
  /\ hasMore = FALSE
  /\ startCursor = 0
  /\ sreq = 0
  /\ slast = NoResponse
  /\ nreq = 0
  /\ nresp = 0
  /\ scovered = <<>>
  /\ sfailed = FALSE
  /\ sdirty = FALSE
  /\ serror = NoError

\* No codec run is in progress.
CodecOff ==
  /\ cpc = "off"
  /\ cnote = Null
  /\ cpage = [id |-> 0]
  /\ cedited = FALSE
  /\ cresult = Null

\* No run of a category normalizer is in progress.
\* createExamQuestionNote is not under test.
PipeOff ==
  /\ ppc = "off"
  /\ penv = {}
  /\ plog = <<>>
  /\ presult = Null

NormOff ==
  /\ npc = "off"
  /\ nimpl = "none"
  /\ ncat = <<>>
  /\ nonce = <<>>
  /\ ntwice = <<>>

(***************************************************************************)
(* The notes the codec is run on: every valid note over small texts.       *)
(***************************************************************************)
ChoiceTexts == { <<"a">>, <<"a", "b">>, <<"b">>, <<"c">> }

ExplanationTexts == { <<>>, <<"e">> }

\* The choices of a question differ from one another.
ChoiceLists ==
  { ch \in UNION { [1..n -> ChoiceTexts] : n \in 2..MaxChoices } :
      \A i, j \in 1..Len(ch) : i # j => ch[i] # ch[j] }

LearningPointLists == { <<>>, << <<"p">>, <<"q">> >> }

OptionalTexts == { <<>>, << <<"d">> >> }

makeNote(choices, correctAnswer, explanations, learningPoints, diagram) ==
  [questionText |-> <<"q">>,
   choices |-> choices,
   correctAnswer |-> correctAnswer,
   correctChoiceText |-> choices[correctAnswer],
   explanation |-> <<"e">>,
   relatedServices |-> << <<"s", "3">> >>,
   wellArchitectedCategories |-> << <<"c", "-", "o">>, <<"r">> >>,
   choiceExplanations |->
     [i \in 1..Len(choices) |->
        [choiceNumber |-> i,
         choiceText |-> choices[i],
         isCorrect |-> (i = correctAnswer),
         explanation |-> explanations[i]]],
   learningPoints |-> learningPoints,
   architectureDiagram |-> diagram,
   similarQuestionsHint |-> <<>>]

(***************************************************************************)
(* The codec run: a note is encoded into a page (buildProperties, as       *)
(* pages.create stores it), the page may be edited in the store, and the   *)
(* page is decoded (parseNotionPage, as getAllQuestions reads it).         *)
(***************************************************************************)
CodecInit ==
  /\ cpc = "input"
  /\ \E ch \in ChoiceLists :
       \E ca \in 1..Len(ch) :
         \E ex \in [1..Len(ch) -> ExplanationTexts] :
           \E lp \in LearningPointLists :
             \E d \in OptionalTexts :
               cnote = makeNote(ch, ca, ex, lp, d)
  /\ cpage = [id |-> 1]
  /\ cedited = FALSE
  /\ cresult = Null
  /\ NormOff
  /\ PipeOff
  /\ store = <<>> /\ started = MaxCalls /\ UpsertIdle
  /\ schema = RequiredProperties \cup OptionalProperties
  /\ scans = MaxScans /\ ScanIdle

Encode ==
  /\ cpc = "input"
  /\ cpage' = [id |-> 1, properties |-> buildProperties(cnote)]
  /\ cpc' = "encoded"
  /\ UNCHANGED <<cnote, cedited, cresult, nvars, pvars, uvars, svars>>

\* Texts a hand-edited "Choice Explanations" property may hold: no section
\* at all (one line, or two paragraphs with a blank line between them), a
\* marker with nothing after it, the section of the second choice alone,
\* and the section of the first choice marked as the correct one.
EditedExplanationTexts ==
  { <<"z">>,
    <<"z", NL, NL, "z">>,
    <<MarkOpen, "1", MarkClose>>,
    <<MarkOpen, "2", MarkClose>> \o IncorrectGlyph \o <<NL>>
       \o cnote.choices[2] \o <<NL, "e">>,
    <<MarkOpen, "1", MarkClose>> \o CorrectGlyph \o <<NL>>
       \o cnote.choices[1] \o <<NL, "e">> }

\* Tag names a hand-edited "Well-Architected Category" may hold: the
\* human-readable name of a pillar, and a name of no pillar.
EditedCategoryTags == { << <<"C", " ", "O">> >>, << <<"x">> >> }

\* A "Choices" text without any choice: a number and blank lines.
BlankChoicesTexts == { <<"1", ".", " ", NL, " ">> }

\* An edit of the stored page made outside the adapter (in the Notion UI):
\* a property is cleared, the number is changed, the explanations block,
\* the category tags or the choices are rewritten, or the API returns the
\* page as a partial page object.
EditPage ==
  /\ cpc = "encoded"
  /\ ~cedited
  /\ \/ \E k \in DOMAIN cpage.properties :
          cpage' = [cpage EXCEPT !.properties =
                      [j \in DOMAIN cpage.properties \ {k} |-> cpage.properties[j]]]
     \/ \E n \in 0..(MaxChoices + 1) :
          /\ n # cpage.properties["Correct Answer"]
          /\ cpage' = [cpage EXCEPT !.properties["Correct Answer"] = n]
     \/ \E t \in EditedExplanationTexts :
          cpage' = [cpage EXCEPT !.properties["Choice Explanations"] = t]
     \/ \E t \in EditedCategoryTags :
          cpage' = [cpage EXCEPT !.properties["Well-Architected Category"] = t]
     \/ \E t \in BlankChoicesTexts :
          cpage' = [cpage EXCEPT !.properties["Choices"] = t]
     \/ cpage' = [id |-> cpage.id]
  /\ cedited' = TRUE
  /\ UNCHANGED <<cpc, cnote, cresult, nvars, pvars, uvars, svars>>

Decode ==
  /\ cpc = "encoded"
  /\ cresult' = parseNotionPage(cpage)
  /\ cpc' = "decoded"
  /\ UNCHANGED <<cnote, cpage, cedited, nvars, pvars, uvars, svars>>

CodecNext == Encode \/ EditPage \/ Decode

CodecSpec == CodecInit /\ [][CodecNext]_vars

(***************************************************************************)
(* Properties of the codec.                                                *)
(***************************************************************************)
\* The data-model invariants of a note (spec section 3).
ValidNote(n) ==
  /\ n.questionText # <<>>
  /\ Len(n.choices) >= 2 /\ Len(n.choices) <= 8
  /\ n.correctAnswer \in 1..Len(n.choices)
  /\ Len(n.choiceExplanations) = Len(n.choices)
  /\ \A i \in 1..Len(n.choices) :
       /\ n.choiceExplanations[i].choiceNumber = i
       /\ n.choiceExplanations[i].isCorrect = (i = n.correctAnswer)

HasMarkerToken(s) ==
  \/ \E i \in 1..Len(s) : s[i] \in {MarkOpen, MarkClose}
  \/ Includes(s, CorrectGlyph)
  \/ Includes(s, IncorrectGlyph)

NoStructuralMarkers(n) ==
  /\ \A i \in 1..Len(n.choices) : ~HasMarkerToken(n.choices[i])
  /\ \A i \in 1..Len(n.choiceExplanations) :
       /\ ~HasMarkerToken(n.choiceExplanations[i].choiceText)
       /\ ~HasMarkerToken(n.choiceExplanations[i].explanation)
  /\ \A i \in 1..Len(n.learningPoints) : ~HasMarkerToken(n.learningPoints[i])

RequiredFieldsEqual(a, b) ==
  /\ a.questionText = b.questionText
  /\ a.choices = b.choices
  /\ a.correctAnswer = b.correctAnswer
  /\ a.correctChoiceText = b.correctChoiceText
  /\ a.explanation = b.explanation
  /\ a.relatedServices = b.relatedServices
  /\ a.wellArchitectedCategories = b.wellArchitectedCategories
  /\ a.choiceExplanations = b.choiceExplanations
  /\ a.learningPoints = b.learningPoints

\* The choiceNumbers of ces are exactly 1..n, each occurring once.
NumberedOnce(ces, n) ==
  /\ Len(ces) = n
  /\ \A k \in 1..n :
       Cardinality({ i \in 1..Len(ces) : ces[i].choiceNumber = k }) = 1

\* The page decoded is the one buildProperties made of cnote, unedited.
DecodedEncoded == cpc = "decoded" /\ ~cedited

\* C2 (as claimed): round trip.  For every valid note n without structural
\* marker tokens, parseNotionPage of the page built by buildProperties(n)
\* returns a note equal to n on every required field.
C2_RoundTrip ==
  (DecodedEncoded /\ ValidNote(cnote) /\ NoStructuralMarkers(cnote))
    => (cresult # Null /\ RequiredFieldsEqual(cresult, cnote))

\* C3 (as claimed): choice-count invariant.  For every valid note n the
\* choiceExplanations of decode(encode(n)) has exactly len(n.choices)
\* entries, whose choiceNumbers are 1..len(n.choices), each once.
C3_ChoiceCount ==
  (DecodedEncoded /\ ValidNote(cnote))
    => (cresult # Null
        /\ NumberedOnce(cresult.choiceExplanations, Len(cnote.choices)))

\* C4 (as claimed): data-model invariant on every decode.  Whatever the
\* stored page holds, a non-null decoded note has one choiceExplanation per
\* choice, numbered 1..len(choices) without gaps or repeats, in ascending
\* order, with isCorrect true exactly at choiceNumber = correctAnswer.
C4_DecodeInvariant ==
  (cpc = "decoded" /\ cresult # Null)
    => LET ces == cresult.choiceExplanations
       IN /\ NumberedOnce(ces, Len(cresult.choices))
          /\ \A i \in 1..Len(ces) :
               /\ i > 1 => ces[i - 1].choiceNumber <= ces[i].choiceNumber
               /\ ces[i].isCorrect = (ces[i].choiceNumber = cresult.correctAnswer)

\* C16 (as claimed): pillar closure.  Every note returned by decode has
\* wellArchitectedCategories within the six canonical pillar values,
\* whatever tag names the stored record holds.
C16_PillarClosure ==
  (cpc = "decoded" /\ cresult # Null)
    => \A i \in 1..Len(cresult.wellArchitectedCategories) :
         cresult.wellArchitectedCategories[i] \in WellArchitectedPillar

\* The lines of the stored "Choices" text that hold a choice.
storedChoiceLines(props) ==
  LET lines == Split(prop(props, "Choices", <<>>), <<NL>>)
  IN { i \in 1..Len(lines) : Trim(StripNumber(lines[i])) # <<>> }

\* The record is one that decode rejects: no title, no choice, or a
\* Correct Answer that is missing or outside [1, len(choices)].
Rejected(page) ==
  \/ "properties" \notin DOMAIN page
  \/ "Question Text" \notin DOMAIN page.properties
  \/ page.properties["Question Text"] = <<>>
  \/ storedChoiceLines(page.properties) = {}
  \/ "Correct Answer" \notin DOMAIN page.properties
  \/ page.properties["Correct Answer"]
        \notin 1..Cardinality(storedChoiceLines(page.properties))

\* C20: decode rejection conditions.  parseNotionPage returns null when the
\* title is empty, when the Choices text has no non-blank choice line, or
\* when the Correct Answer is missing or outside [1, len(choices)], and a
\* note for every other record.
C20_DecodeRejection ==
  cpc = "decoded" => ((cresult = Null) <=> Rejected(cpage))

C20_Witness ==
  /\ cpc = "decoded" /\ cresult = Null
  /\ "properties" \in DOMAIN cpage
  /\ prop(cpage.properties, "Question Text", <<>>) # <<>>
  /\ storedChoiceLines(cpage.properties) # {}
  /\ prop(cpage.properties, "Correct Answer", 0) > Len(cnote.choices)

\* The text holds no section marker at all.
NoSectionMarker(text) ==
  \A i \in 1..Len(text) : MarkerLen(SubSeq(text, i, Len(text))) = 0

\* The stored "Choice Explanations" block is absent, empty, or garbled: it
\* holds no section marker, or nothing but a marker.
GarbledExplanations(page) ==
  /\ "properties" \in DOMAIN page
  /\ LET text == prop(page.properties, "Choice Explanations", <<>>)
     IN \/ NoSectionMarker(text)
        \/ (MarkerLen(text) = Len(text))

\* C21 (as claimed): fallback reconstruction.  A record with valid title,
\* choices and correctAnswer whose Choice Explanations block is empty,
\* absent or garbled decodes to a non-null note with one choiceExplanation
\* per choice, numbered 1..len(choices), each with the choice as its
\* choiceText, isCorrect true exactly at correctAnswer, and an empty
\* explanation.
C21_FallbackReconstruction ==
  (cpc = "decoded" /\ GarbledExplanations(cpage) /\ ~Rejected(cpage))
    => /\ cresult # Null
       /\ Len(cresult.choiceExplanations) = Len(cresult.choices)
       /\ \A i \in 1..Len(cresult.choiceExplanations) :
            LET e == cresult.choiceExplanations[i]
            IN /\ e.choiceNumber = i
               /\ e.choiceText = cresult.choices[i]
               /\ e.isCorrect = (i = cresult.correctAnswer)
               /\ e.explanation = <<>>

\* C22 (as claimed): choice-number recovery prefers the exact match.  The
\* choiceNumber recovered for a section is the position of the choice equal
\* to the section's choiceText whenever there is one, also when that text
\* is a substring of an earlier choice.
C22_ExactMatchPreferred ==
  (cpc = "decoded" /\ cresult # Null)
    => \A i \in 1..Len(cresult.choiceExplanations) :
         \A k \in 1..Len(cresult.choices) :
           cresult.choices[k] = cresult.choiceExplanations[i].choiceText
             => cresult.choiceExplanations[i].choiceNumber = k

(***************************************************************************)
(* The codec run on choice texts with outer whitespace, a number prefix,   *)
(* or a line break (the "Choices" wire format of buildProperties read back *)
(* by parseNotionPage), and on optional fields that are absent, empty or   *)
(* present.                                                                *)
(***************************************************************************)
WireChoiceTexts ==
  { <<"a">>, <<" ", "a">>, <<"b", " ">>, <<"1", ".", "c">>, <<"a", NL, "b">> }

WireChoiceLists ==
  { s \in UNION { [1..n -> WireChoiceTexts] : n \in 2..MaxChoices } :
      \A i, j \in 1..Len(s) : i # j => s[i] # s[j] }

\* architectureDiagram?: string and similarQuestionsHint?: string:
\* undefined, "" and a text.
WireOptionalTexts == { <<>>, << <<>> >>, << <<"d">> >> }

WireInit ==
  /\ cpc = "input"
  /\ \E ch \in WireChoiceLists :
       \E ca \in 1..Len(ch) :
         \E d \in WireOptionalTexts :
           \E h \in WireOptionalTexts :
             cnote = [makeNote(ch, ca, [i \in 1..Len(ch) |-> <<"e">>], <<>>, d)
                        EXCEPT !.similarQuestionsHint = h]
  /\ cpage = [id |-> 1]
  /\ cedited = FALSE
  /\ cresult = Null
  /\ NormOff
  /\ PipeOff
  /\ store = <<>> /\ started = MaxCalls /\ UpsertIdle
  /\ schema = RequiredProperties \cup OptionalProperties
  /\ scans = MaxScans /\ ScanIdle

WireSpec == WireInit /\ [][CodecNext]_vars

\* C23 (as claimed): the choice-list wire format is inverted exactly.  For
\* every choices sequence of a valid note, the "Choices" text built from it
\* ("k. <text>" lines joined by newline) decodes to the same sequence, with
\* the same length, order and texts.
C23_ChoicesInverted ==
  (cpc = "encoded" /\ ~cedited /\ ValidNote(cnote))
    => parseChoices(cpage.properties["Choices"]) = cnote.choices

\* C24: optional fields are omitted, not written empty.  The property bag
\* built by buildProperties always holds the nine required properties, and
\* holds "Architecture Diagram" (resp. "Similar Questions Hint") exactly
\* when note.architectureDiagram (resp. note.similarQuestionsHint) is
\* present and non-empty.
C24_OptionalOmitted ==
  (cpc = "encoded" /\ ~cedited)
    => /\ Cardinality(RequiredProperties) = 9
       /\ RequiredProperties \subseteq DOMAIN cpage.properties
       /\ DOMAIN cpage.properties \subseteq RequiredProperties \cup OptionalProperties
       /\ ("Architecture Diagram" \in DOMAIN cpage.properties
             <=> (cnote.architectureDiagram # <<>>
                    /\ cnote.architectureDiagram[1] # <<>>))
       /\ ("Similar Questions Hint" \in DOMAIN cpage.properties
             <=> (cnote.similarQuestionsHint # <<>>
                    /\ cnote.similarQuestionsHint[1] # <<>>))

\* A note whose diagram is the empty string and whose hint is a text has
\* been encoded.
C24_Witness ==
  /\ cpc = "encoded" /\ ~cedited
  /\ cnote.architectureDiagram = << <<>> >>
  /\ cnote.similarQuestionsHint = << <<"d">> >>
  /\ "Similar Questions Hint" \in DOMAIN cpage.properties
  /\ "Architecture Diagram" \notin DOMAIN cpage.properties

(***************************************************************************)
(* The run of a category normalizer: a name is normalized, and the result  *)
(* is normalized again.                                                    *)
(***************************************************************************)
CategoryAlphabet ==
  { "C", "c", "P", "p", "R", "r", "S", "s", "O", "o", "E", "e", "U", "u",
    " ", "-" }

CategoryNames ==
  UNION { [1..n -> CategoryAlphabet] : n \in 0..MaxCatLen } \cup { InheritedKey }

normalizeWith(impl, cat) ==
  IF impl = "gemini" THEN normalizeWellArchitectedCategory(cat)
  ELSE normalizeCategory(cat)

NormInit ==
  /\ npc = "input"
  /\ nimpl \in {"gemini", "notion"}
  /\ ncat \in CategoryNames
  /\ nonce = <<>>
  /\ ntwice = <<>>
  /\ CodecOff
  /\ PipeOff
  /\ store = <<>> /\ started = MaxCalls /\ UpsertIdle
  /\ schema = RequiredProperties \cup OptionalProperties
  /\ scans = MaxScans /\ ScanIdle

NormalizeOnce ==
  /\ npc = "input"
  /\ nonce' = normalizeWith(nimpl, ncat)
  /\ npc' = "once"
  /\ UNCHANGED <<nimpl, ncat, ntwice, cpc, cnote, cpage, cedited, cresult,
                 pvars, uvars, svars>>

NormalizeAgain ==
  /\ npc = "once"
  /\ ntwice' = normalizeWith(nimpl, nonce)
  /\ npc' = "twice"
  /\ UNCHANGED <<nimpl, ncat, nonce, cpc, cnote, cpage, cedited, cresult,
                 pvars, uvars, svars>>

NormNext == NormalizeOnce \/ NormalizeAgain

NormSpec == NormInit /\ [][NormNext]_vars

IsVariant(s, pillar) ==
  LET words == Split(pillar, <<"-">>)
  IN toLowerCase(s) \in { Join(words, <<" ">>), Join(words, <<>>) }

\* C15 (as claimed): for each of the six pillars the canonical slug
\* normalizes to itself, and every human-readable variant of its name, in
\* any letter case, with or without spaces, normalizes to its slug.
C15_AcceptsVariants ==
  npc \in {"once", "twice"} =>
    \A pillar \in WellArchitectedPillar :
      (ncat = pillar \/ IsVariant(ncat, pillar)) => nonce = pillar

(***************************************************************************)
(* The Notion database and the requests the adapter sends to it.           *)
(***************************************************************************)
SearchKeyLength == 50
PageSize == 100

\* A search key that is the whole question text.
wholeQuestionText(note) == note.questionText

\* note.questionText.substring(0, 50)
searchKey(note) ==
  SubSeq(note.questionText, 1, Min(SearchKeyLength, Len(note.questionText)))

titleOf(page) ==
  IF "properties" \in DOMAIN page
  THEN prop(page.properties, "Question Text", <<>>)
  ELSE <<>>

\* databases.query with the filter { property: "Question Text",
\* title: { contains: questionTextPrefix } }: the pages it selects.
queryByTitle(pages, questionTextPrefix) ==
  SelectSeq(pages, LAMBDA page : Includes(titleOf(page), questionTextPrefix))

\* A findExistingPage that never reports a page.
findNothing(results) == 0

\* What findExistingPage returns for a response: results[0].id or null.
findExistingPageResult(results) ==
  IF Len(results) > 0 THEN results[1].id ELSE 0

\* An upsertQuestionNote that creates a page whatever findExistingPage found.
writeRequestAlwaysCreate(pageId, note) ==
  [kind |-> "create", page_id |-> 0, properties |-> buildProperties(note)]

\* The write upsertQuestionNote issues once findExistingPage has returned.
writeRequest(pageId, note) ==
  IF pageId # 0
  THEN [kind |-> "update", page_id |-> pageId,
        properties |-> buildProperties(note)]
  ELSE [kind |-> "create", page_id |-> 0,
        properties |-> buildProperties(note)]

\* pages.update: the properties given replace the page's values of those
\* properties; a property that is not given keeps its value.
\* An update applied to every page that has the title of the page named,
\* not to that page alone.
updateEveryTitled(pages, pageId, properties) ==
  [i \in 1..Len(pages) |->
     IF /\ "properties" \in DOMAIN pages[i]
        /\ \E j \in 1..Len(pages) :
             pages[j].id = pageId /\ titleOf(pages[j]) = titleOf(pages[i])
     THEN [pages[i] EXCEPT !.properties = properties @@ pages[i].properties]
     ELSE pages[i]]

updatePage(pages, pageId, properties) ==
  [i \in 1..Len(pages) |->
     IF pages[i].id = pageId /\ "properties" \in DOMAIN pages[i]
     THEN [pages[i] EXCEPT !.properties = properties @@ pages[i].properties]
     ELSE pages[i]]

\* A create that writes over a page of the same title instead of adding one.
createPageUnlessTitled(pages, properties) ==
  IF \E i \in 1..Len(pages) : titleOf(pages[i]) = properties["Question Text"]
  THEN LET i == CHOOSE j \in 1..Len(pages) :
                  titleOf(pages[j]) = properties["Question Text"]
       IN [pages EXCEPT ![i].properties = properties]
  ELSE Append(pages, [id |-> Len(pages) + 1, properties |-> properties])

\* pages.create: a new page under the database, with a fresh identifier.
createPage(pages, properties) ==
  Append(pages, [id |-> Len(pages) + 1, properties |-> properties])

\* The identifier upsertQuestionNote returns: existingPageId on the update
\* path, response.id on the create path.
upsertResult(request, pagesAfter) ==
  IF request.kind = "update"
  THEN request.page_id
  ELSE pagesAfter[Len(pagesAfter)].id

(***************************************************************************)
(* The failures of a request and the errors the adapter throws.  A message *)
(* is a sequence of tokens: a property name, "is not a property that       *)
(* exists", a space, a comma, a full stop, or another text, each one atom. *)
(***************************************************************************)
AllProperties == RequiredProperties \cup OptionalProperties

IsNotAProperty == "is not a property that exists"

RequestTimeout == <<"Request to Notion API has timed out">>

\* The order in which buildProperties writes the properties.
PropertyOrder ==
  << "Question Text", "Choices", "Correct Answer", "Correct Choice Text",
     "Explanation", "Related Services", "Well-Architected Category",
     "Choice Explanations", "Learning Points", "Architecture Diagram",
     "Similar Questions Hint" >>

\* The message of the validation error of the API for a request that names
\* properties the database does not have.
RECURSIVE missingPropertyMessageFrom(_, _)
missingPropertyMessageFrom(names, i) ==
  IF i > Len(PropertyOrder) THEN <<>>
  ELSE (IF PropertyOrder[i] \in names
        THEN <<PropertyOrder[i], " ", IsNotAProperty, ".">>
               \o (IF \E j \in (i + 1)..Len(PropertyOrder) : PropertyOrder[j] \in names
                   THEN <<" ">> ELSE <<>>)
        ELSE <<>>)
         \o missingPropertyMessageFrom(names, i + 1)

missingPropertyMessage(names) == missingPropertyMessageFrom(names, 1)

\* The failures a write request may meet: the request does not reach the
\* API, or the API rejects the properties the database does not have.
writeFailures(request, properties) ==
  { RequestTimeout }
    \cup (IF DOMAIN request.properties \subseteq properties THEN {}
          ELSE { missingPropertyMessage(DOMAIN request.properties \ properties) })

\* The failures a page request of getAllQuestions may meet.
readFailures ==
  { RequestTimeout, missingPropertyMessage({"Explanation"}) }

\* errorMessage.match(/([^,]+) is not a property that exists/g) within a
\* part of the message without comma: the match runs from the start of the
\* part to the last " is not a property that exists" that has text before
\* it.
matchInSegment(seg) ==
  LET ends == { j \in 3..Len(seg) : seg[j - 1] = " " /\ seg[j] = IsNotAProperty }
  IN IF ends = {} THEN <<>>
     ELSE << SubSeq(seg, 1, CHOOSE j \in ends : \A k \in ends : k <= j) >>

RECURSIVE matchesInSegments(_)
matchesInSegments(segs) ==
  IF segs = <<>> THEN <<>>
  ELSE matchInSegment(Head(segs)) \o matchesInSegments(Tail(segs))

missingProperties(errorMessage) ==
  matchesInSegments(Split(errorMessage, <<",">>))

\* The two fixed parts of the translated message, in English here: the
\* sentence before the list of matches and the steps after it.
SchemaMismatchHeader == "The following properties do not exist in the Notion database: "
SchemaMismatchRemedy == "How to fix: 1. add the properties 2. check NOTION_DATABASE_ID 3. see README.md"

\* The message the catch clause makes of one that names missing properties.
schemaMismatchMessage(matches) ==
  <<SchemaMismatchHeader>> \o Join(matches, <<",", " ">>) \o <<SchemaMismatchRemedy>>

\* The catch clause of upsertQuestionNote: errorMessage after translation.
translatedMessage(errorMessage) ==
  IF Includes(errorMessage, <<IsNotAProperty>>)
       /\ missingProperties(errorMessage) # <<>>
  THEN schemaMismatchMessage(missingProperties(errorMessage))
  ELSE errorMessage

\* An error thrown with the failure's message as it is.
untranslatedErrorMessage(errorMessage) == errorMessage

\* new Error(`Notion API error: ${errorMessage}`)
upsertErrorMessage(errorMessage) ==
  <<"Notion API error: ">> \o translatedMessage(errorMessage)

\* new Error(`Failed to fetch questions from Notion: ${error.message}`)
getAllQuestionsErrorMessage(errorMessage) ==
  <<"Failed to fetch questions from Notion: ">> \o errorMessage

(***************************************************************************)
(* The notes the callers submit: two analyses of the question "q" (one     *)
(* with an architecture diagram, one without) and the question "pq".       *)
(***************************************************************************)
questionNote(questionText, explanation, diagram) ==
  [makeNote(<< <<"a">>, <<"b">> >>, 1, << explanation, <<>> >>,
            << <<"p">> >>, diagram)
     EXCEPT !.questionText = questionText]

NoteA == questionNote(<<"q">>, <<"e">>, << <<"d">> >>)
NoteB == questionNote(<<"q">>, <<"f">>, <<>>)
NoteC == questionNote(<<"p", "q">>, <<"e">>, <<>>)

Notes == { NoteA, NoteB, NoteC }

\* The databases the adapter is started on: an empty one, one of three pages
\* whose second page has an empty title, and one whose only page comes back
\* as a partial page object.
pageOf(id, note) == [id |-> id, properties |-> buildProperties(note)]

untitledPage(id) ==
  [id |-> id,
   properties |-> [buildProperties(NoteA) EXCEPT !["Question Text"] = <<>>]]

InitialStores ==
  { <<>>,
    << pageOf(1, NoteC), untitledPage(2), pageOf(3, NoteA) >>,
    << [id |-> 1] >> }

(***************************************************************************)
(* upsertQuestionNote.  A call suspends at its two awaits: the title query *)
(* of findExistingPage and the write.                                      *)
(***************************************************************************)
\* The run of caller c when it starts a call with note: the run goes on
\* when the call before it was of the same note and returned.
runAtStart(c, note) ==
  IF upc[c] = "returned" /\ run[c].note = note
  THEN run[c]
  ELSE [note |-> note, ids |-> <<>>, quiet |-> TRUE, findOk |-> TRUE,
        matches |-> Len(queryByTitle(store, searchKey(note)))]

\* upsertQuestionNote(note) is called; it calls findExistingPage, which
\* sends the title query.
UpsertStart(c, note) ==
  /\ upc[c] \in {"idle", "returned", "thrown"}
  /\ started < MaxCalls
  /\ started' = started + 1
  /\ upc' = [upc EXCEPT ![c] = "finding"]
  /\ unote' = [unote EXCEPT ![c] = note]
  /\ existingPageId' = [existingPageId EXCEPT ![c] = 0]
  /\ uwrite' = [uwrite EXCEPT ![c] = NoRequest]
  /\ uresult' = [uresult EXCEPT ![c] = 0]
  /\ ulog' = [ulog EXCEPT ![c] = <<"query">>]
  /\ uanswer' = [uanswer EXCEPT ![c] = -2]
  /\ uapplied' = [uapplied EXCEPT ![c] = NoRequest]
  /\ uoverlap' = [d \in Callers |-> FALSE]
  /\ run' = [run EXCEPT ![c] = runAtStart(c, note)]
  /\ uerror' = [uerror EXCEPT ![c] = NoError]
  /\ UNCHANGED <<store, schema, cvars, svars>>

\* The title query is answered; findExistingPage returns the first hit or
\* null, and upsertQuestionNote sends the update or the create.
FindAnswered(c) ==
  /\ upc[c] = "finding"
  /\ LET results == queryByTitle(store, searchKey(unote[c]))
         pageId == findExistingPageResult(results)
     IN /\ uanswer' = [uanswer EXCEPT ![c] =
                         IF Len(results) > 0 THEN results[1].id ELSE 0]
        /\ existingPageId' = [existingPageId EXCEPT ![c] = pageId]
        /\ uwrite' = [uwrite EXCEPT ![c] = writeRequest(pageId, unote[c])]
        /\ ulog' = [ulog EXCEPT ![c] =
                      @ \o <<"answered", writeRequest(pageId, unote[c]).kind>>]
  /\ uoverlap' = [uoverlap EXCEPT ![c] = \E d \in Callers \ {c} : upc[d] = "writing"]
  /\ upc' = [upc EXCEPT ![c] = "writing"]
  /\ UNCHANGED <<store, started, unote, uresult, uapplied, run, schema,
                 uerror, cvars, svars>>

\* A findExistingPage without its catch clause: the failure of the title
\* query reaches the catch clause of upsertQuestionNote, which throws.
FindFailedPropagates(c) ==
  /\ upc[c] = "finding"
  /\ uanswer' = [uanswer EXCEPT ![c] = -1]
  /\ ulog' = [ulog EXCEPT ![c] = Append(@, "failed")]
  /\ upc' = [upc EXCEPT ![c] = "thrown"]
  /\ run' = [run EXCEPT ![c].findOk = FALSE]
  /\ UNCHANGED <<store, started, unote, existingPageId, uwrite, uresult,
                 uapplied, uoverlap, schema, uerror, cvars, svars>>

\* The title query fails; the catch clause of findExistingPage returns
\* null, and upsertQuestionNote sends the create.
FindFailed(c) ==
  /\ upc[c] = "finding"
  /\ uanswer' = [uanswer EXCEPT ![c] = -1]
  /\ existingPageId' = [existingPageId EXCEPT ![c] = 0]
  /\ uwrite' = [uwrite EXCEPT ![c] = writeRequest(0, unote[c])]
  /\ ulog' = [ulog EXCEPT ![c] =
                @ \o <<"failed", writeRequest(0, unote[c]).kind>>]
  /\ upc' = [upc EXCEPT ![c] = "writing"]
  /\ run' = [run EXCEPT ![c].findOk = FALSE]
  /\ UNCHANGED <<store, started, unote, uresult, uapplied, uoverlap, schema,
                 uerror, cvars, svars>>

\* The store's pages after it applied a write request.
applyWrite(pages, request) ==
  IF request.kind = "update"
  THEN updatePage(pages, request.page_id, request.properties)
  ELSE createPage(pages, request.properties)

\* The store applies the write and answers; upsertQuestionNote returns the
\* identifier.
WriteApplied(c) ==
  /\ upc[c] = "writing"
  /\ DOMAIN uwrite[c].properties \subseteq schema
  /\ store' = applyWrite(store, uwrite[c])
  /\ uapplied' = [uapplied EXCEPT ![c] =
                    [kind |-> uwrite[c].kind,
                     page_id |-> IF uwrite[c].kind = "update"
                                 THEN uwrite[c].page_id
                                 ELSE store'[Len(store')].id,
                     properties |-> uwrite[c].properties]]
  /\ uresult' = [uresult EXCEPT ![c] = upsertResult(uwrite[c], store')]
  /\ ulog' = [ulog EXCEPT ![c] = Append(@, "written")]
  /\ upc' = [upc EXCEPT ![c] = "returned"]
  /\ run' = [d \in Callers |->
               IF d = c
               THEN [run[d] EXCEPT !.ids = Append(@, upsertResult(uwrite[c], store'))]
               ELSE [run[d] EXCEPT !.quiet = FALSE]]
  /\ sdirty' = TRUE
  /\ UNCHANGED <<started, unote, existingPageId, uwrite, uanswer, uoverlap,
                 schema, uerror, cvars, scans, spc, questions, hasMore,
                 startCursor, sreq, slast, nreq, nresp, scovered, sfailed,
                 serror>>

\* The write fails; the catch clause of upsertQuestionNote throws
\* "Notion API error: ...".
WriteFailed(c) ==
  /\ upc[c] = "writing"
  /\ \E failure \in writeFailures(uwrite[c], schema) :
       uerror' = [uerror EXCEPT ![c] =
                    [failure |-> failure,
                     message |-> upsertErrorMessage(failure)]]
  /\ ulog' = [ulog EXCEPT ![c] = Append(@, "writeFailed")]
  /\ upc' = [upc EXCEPT ![c] = "thrown"]
  /\ UNCHANGED <<store, started, unote, existingPageId, uwrite, uresult,
                 uanswer, uapplied, uoverlap, run, schema, cvars, svars>>

(***************************************************************************)
(* getAllQuestions.  A call suspends at the await of each page request.    *)
(***************************************************************************)
\* The responses the database may give to a query for the pages from
\* start_cursor on (0: from the first page): at least one and at most
\* page_size of the pages that remain, has_more telling whether more remain
\* and next_cursor where they start.
queryResponses(pages, start_cursor, page_size) ==
  LET from == IF start_cursor = 0 THEN 1 ELSE start_cursor
      remaining == Len(pages) - from + 1
  IN IF remaining <= 0
     THEN { [results |-> <<>>, has_more |-> FALSE, next_cursor |-> 0] }
     ELSE { [results |-> SubSeq(pages, from, from + k - 1),
             has_more |-> (from + k - 1 < Len(pages)),
             next_cursor |-> IF from + k - 1 < Len(pages) THEN from + k ELSE 0]
            : k \in 1..Min(page_size, remaining) }

\* A loop over response.results that ends at the first page parsed to null.
RECURSIVE parseResultsUntilNull(_)
parseResultsUntilNull(results) ==
  IF results = <<>> THEN <<>>
  ELSE IF parseNotionPage(Head(results)) = Null THEN <<>>
  ELSE <<parseNotionPage(Head(results))>> \o parseResultsUntilNull(Tail(results))

\* The loop over response.results: the notes pushed to questions.
RECURSIVE parseResults(_)
parseResults(results) ==
  IF results = <<>> THEN <<>>
  ELSE (IF parseNotionPage(Head(results)) # Null
        THEN <<parseNotionPage(Head(results))>>
        ELSE <<>>)
         \o parseResults(Tail(results))

\* A loop that never passes the cursor on.
noStartCursor(response) == 0

\* startCursor = response.next_cursor || undefined
nextStartCursor(response) == response.next_cursor

\* A loop that never takes has_more from the response.
alwaysHasMore(response) == TRUE

\* hasMore = response.has_more
nextHasMore(response) == response.has_more

ScanStart ==
  /\ spc \in {"idle", "returned", "thrown"}
  /\ scans < MaxScans
  /\ scans' = scans + 1
  /\ questions' = <<>>
  /\ hasMore' = TRUE
  /\ startCursor' = 0
  /\ sreq' = 0
  /\ slast' = NoResponse
  /\ nreq' = 0
  /\ nresp' = 0
  /\ scovered' = <<>>
  /\ sfailed' = FALSE
  /\ sdirty' = FALSE
  /\ serror' = NoError
  /\ spc' = "loop"
  /\ UNCHANGED <<cvars, uvars>>

\* while (hasMore): the next page is requested with startCursor.  The count
\* of requests is capped beyond what a database of MaxPages pages and
\* MaxCalls writes can ask for: a loop that reaches the cap has not ended.
ScanRequest ==
  /\ spc = "loop"
  /\ hasMore
  /\ nreq < MaxPages + MaxCalls + 1
  /\ sreq' = startCursor
  /\ nreq' = nreq + 1
  /\ spc' = "awaiting"
  /\ UNCHANGED <<cvars, uvars, scans, questions, hasMore, startCursor, slast,
                 nresp, scovered, sfailed, sdirty, serror>>

\* The page request is answered; its results are parsed and the loop
\* variables are set.
ScanAnswered ==
  /\ spc = "awaiting"
  /\ \E response \in queryResponses(store, sreq, PageSize) :
       /\ questions' = questions \o parseResults(response.results)
       /\ hasMore' = nextHasMore(response)
       /\ startCursor' = nextStartCursor(response)
       /\ slast' = response
       /\ scovered' = scovered \o response.results
  /\ nresp' = nresp + 1
  /\ spc' = "loop"
  /\ UNCHANGED <<cvars, uvars, scans, sreq, nreq, sfailed, sdirty, serror>>

\* A catch clause that returns the notes of the pages read so far.
ScanFailedReturnsPartial ==
  /\ spc = "awaiting"
  /\ sfailed' = TRUE
  /\ spc' = "returned"
  /\ UNCHANGED <<cvars, uvars, scans, questions, hasMore, startCursor, sreq,
                 slast, nreq, nresp, scovered, sdirty, serror>>

\* The page request fails; the catch clause throws "Failed to fetch
\* questions from Notion: ...".
ScanFailed ==
  /\ spc = "awaiting"
  /\ sfailed' = TRUE
  /\ \E failure \in readFailures :
       serror' = [failure |-> failure,
                  message |-> getAllQuestionsErrorMessage(failure)]
  /\ spc' = "thrown"
  /\ UNCHANGED <<cvars, uvars, scans, questions, hasMore, startCursor, sreq,
                 slast, nreq, nresp, scovered, sdirty>>

\* The loop ends; questions is returned.
ScanReturn ==
  /\ spc = "loop"
  /\ ~hasMore
  /\ spc' = "returned"
  /\ UNCHANGED <<cvars, uvars, scans, questions, hasMore, startCursor, sreq,
                 slast, nreq, nresp, scovered, sfailed, sdirty, serror>>

(***************************************************************************)
(* Concurrent calls of upsertQuestionNote against the database.            *)
(***************************************************************************)
Init ==
  /\ store \in InitialStores
  /\ schema = AllProperties
  /\ started = 0
  /\ UpsertIdle
  /\ scans = MaxScans
  /\ ScanIdle
  /\ CodecOff
  /\ NormOff
  /\ PipeOff

Next ==
  \/ \E c \in Callers : \E note \in Notes : UpsertStart(c, note)
  \/ \E c \in Callers : FindAnswered(c)
  \/ \E c \in Callers : FindFailed(c)
  \/ \E c \in Callers : WriteApplied(c)
  \/ \E c \in Callers : WriteFailed(c)

Spec == Init /\ [][Next]_vars

(***************************************************************************)
(* Calls of getAllQuestions against every database of at most MaxPages     *)
(* pages, while one call of upsertQuestionNote may be writing to it.       *)
(***************************************************************************)
pageKinds(id) ==
  { pageOf(id, NoteA), untitledPage(id), [id |-> id] }

ScannedStores ==
  UNION { { pages \in [1..n -> UNION { pageKinds(id) : id \in 1..n }] :
              \A i \in 1..n : pages[i].id = i }
          : n \in 0..MaxPages }

Writer == "c1"

ScanInit ==
  /\ store \in ScannedStores
  /\ schema = AllProperties
  /\ started = MaxCalls - 1
  /\ UpsertIdle
  /\ scans = 0
  /\ ScanIdle
  /\ CodecOff
  /\ NormOff
  /\ PipeOff

ScanNext ==
  \/ ScanStart
  \/ ScanRequest
  \/ ScanAnswered
  \/ ScanFailed
  \/ ScanReturn
  \/ \E note \in Notes : UpsertStart(Writer, note)
  \/ FindAnswered(Writer)
  \/ FindFailed(Writer)
  \/ WriteApplied(Writer)
  \/ WriteFailed(Writer)

ScanSpec == ScanInit /\ [][ScanNext]_vars

(***************************************************************************)
(* Calls of upsertQuestionNote by one caller, against databases with and   *)
(* without the optional properties and one without a required property,    *)
(* with notes that break the data model and question texts longer than the *)
(* search key.                                                             *)
(***************************************************************************)
\* A note whose correctAnswer is no choice of the question.
NoteD == [NoteB EXCEPT !.correctAnswer = Len(NoteB.choices) + 1]

\* A question text one character longer than the search key.
longQuestionText(last) ==
  [i \in 1..(SearchKeyLength + 1) |-> IF i <= SearchKeyLength THEN "q" ELSE last]

NoteL == [NoteB EXCEPT !.questionText = longQuestionText("z")]
NoteM == [NoteB EXCEPT !.questionText = longQuestionText("y")]

SubmittedNotes == Notes \cup { NoteD, NoteL }

WriteStores == InitialStores \cup { << pageOf(1, NoteM) >> }

Schemas ==
  { AllProperties, RequiredProperties, AllProperties \ {"Explanation"} }

WriteInit ==
  /\ store \in WriteStores
  /\ schema \in Schemas
  /\ started = 0
  /\ UpsertIdle
  /\ scans = MaxScans
  /\ ScanIdle
  /\ CodecOff
  /\ NormOff
  /\ PipeOff

WriteNext ==
  \/ \E note \in SubmittedNotes : UpsertStart(Writer, note)
  \/ FindAnswered(Writer)
  \/ FindFailed(Writer)
  \/ WriteApplied(Writer)
  \/ WriteFailed(Writer)

WriteSpec == WriteInit /\ [][WriteNext]_vars

(***************************************************************************)
(* Properties of upsertQuestionNote (specification Spec).                  *)
(***************************************************************************)
pageWithId(id) == store[CHOOSE i \in 1..Len(store) : store[i].id = id]

\* The pages of the store that hold the question of note.
pagesFor(note) ==
  { i \in 1..Len(store) : Includes(titleOf(store[i]), searchKey(note)) }

\* Caller c has called upsertQuestionNote at least twice in a row with the
\* same note, every call returned, and no other caller wrote meanwhile.
TwiceInARow(c) ==
  upc[c] = "returned" /\ run[c].quiet /\ Len(run[c].ids) >= 2

Converged(c) ==
  /\ \A i \in 1..Len(run[c].ids) : run[c].ids[i] = run[c].ids[1]
  /\ uapplied[c].kind = "update"
  /\ pagesFor(run[c].note) = { i \in 1..Len(store) : store[i].id = run[c].ids[1] }
  /\ titleOf(pageWithId(run[c].ids[1])) = run[c].note.questionText

CallLogs ==
  { <<>>, <<"query">> }
    \cup { <<"query", a, w>> :
             a \in {"answered", "failed"}, w \in {"update", "create"} }
    \cup { <<"query", a, w, r>> :
             a \in {"answered", "failed"}, w \in {"update", "create"},
             r \in {"written", "writeFailed"} }

\* C5: find-before-write.  In every call the title query is issued and
\* answered before any write; then exactly one write is issued, an update at
\* the found identifier when the query had a hit and a create otherwise,
\* never both; the call returns the found identifier on the update path and
\* the identifier the store assigned on the create path.
C5_FindBeforeWrite ==
  \A c \in Callers :
    /\ ulog[c] \in CallLogs
    /\ (upc[c] = "finding") = (ulog[c] = <<"query">>)
    /\ upc[c] \in {"writing", "returned", "thrown"} =>
         /\ Len(ulog[c]) = (IF upc[c] = "writing" THEN 3 ELSE 4)
         /\ ulog[c][3] = uwrite[c].kind
         /\ uanswer[c] > 0 =>
              uwrite[c].kind = "update" /\ uwrite[c].page_id = uanswer[c]
         /\ uanswer[c] <= 0 => uwrite[c].kind = "create"
    /\ upc[c] = "returned" =>
         /\ uapplied[c].kind = uwrite[c].kind
         /\ uresult[c] = uapplied[c].page_id
         /\ uanswer[c] > 0 => uresult[c] = uanswer[c]
         /\ \E i \in 1..Len(store) : store[i].id = uresult[c]

C5_Witness ==
  /\ upc["c1"] = "returned" /\ uapplied["c1"].kind = "update"
  /\ upc["c2"] = "returned" /\ uapplied["c2"].kind = "create"

\* C6 (as claimed): update of all properties.  After an upsertQuestionNote(n)
\* that found a page and returned, with no other writer, every property of
\* the page at the returned identifier is the one built from n: nothing of
\* the page's previous content is left.
C6_UpdateReplacesAll ==
  \A c \in Callers :
    (upc[c] = "returned" /\ uapplied[c].kind = "update" /\ run[c].quiet)
      => pageWithId(uresult[c]).properties = buildProperties(unote[c])

\* Both callers asked for the same question, both title queries were
\* answered with no hit before either write was applied, and both calls
\* returned.
BothMissed ==
  /\ \A c \in Callers : upc[c] = "returned" /\ uanswer[c] = 0
  /\ \E c \in Callers : uoverlap[c]
  /\ unote["c1"].questionText = unote["c2"].questionText

\* C7: concurrent duplicate race.  Two concurrent calls for the same question
\* whose queries both complete before either write both take the create
\* path, and the store ends with two records for the question.
C7_RaceDuplicates ==
  BothMissed =>
    /\ \A c \in Callers : uapplied[c].kind = "create"
    /\ uresult["c1"] # uresult["c2"]
    /\ \A c \in Callers :
         titleOf(pageWithId(uresult[c])) = unote[c].questionText
    /\ Cardinality(pagesFor(unote["c1"])) >= 2

C7_Witness == BothMissed /\ Len(store) = 2

\* C8: the failure of the title query is swallowed.  findExistingPage then
\* returns null, upsertQuestionNote still issues a write, a create, and the
\* call fails only if that write fails.
C8_FindFailureSwallowed ==
  \A c \in Callers :
    /\ uanswer[c] = -1 =>
         /\ existingPageId[c] = 0
         /\ upc[c] \in {"writing", "returned", "thrown"}
         /\ uwrite[c].kind = "create"
         /\ upc[c] = "returned" =>
              uapplied[c].kind = "create" /\ uresult[c] = uapplied[c].page_id
    /\ upc[c] = "thrown" => ulog[c][Len(ulog[c])] = "writeFailed"

C8_Witness ==
  \E c \in Callers : uanswer[c] = -1 /\ upc[c] = "returned" /\ uresult[c] > 0

\* What a step of upsertQuestionNote may do to the store: the write that
\* returns changes the page found and nothing else (update path) or adds
\* one page with a fresh identifier (create path); the write that fails
\* changes nothing; and no other step changes the store.
UpsertFrameStep ==
  /\ \A c \in Callers :
       (upc[c] = "writing" /\ upc'[c] = "returned")
         => IF existingPageId[c] # 0
            THEN /\ Len(store') = Len(store)
                 /\ \A i \in 1..Len(store) :
                      /\ store'[i].id = store[i].id
                      /\ store[i].id # existingPageId[c] => store'[i] = store[i]
            ELSE /\ Len(store') = Len(store) + 1
                 /\ SubSeq(store', 1, Len(store)) = store
                 /\ \A i \in 1..Len(store) :
                      store'[Len(store')].id # store[i].id
  /\ \A c \in Callers :
       (upc[c] = "writing" /\ upc'[c] = "thrown") => store' = store
  /\ store' # store
       => \E c \in Callers : upc[c] = "writing" /\ upc'[c] = "returned"

\* C25: upsert frame.  A successful upsertQuestionNote changes at most one
\* record of the store: the found record on the update path, which keeps
\* the record count, or one new record on the create path, which raises
\* the count by one; identifier and content of every other record stay as
\* they were.  An upsert whose write fails leaves the store unchanged.
C25_UpsertFrame == [][UpsertFrameStep]_vars

\* One call updated a page of a store of several pages, and the write of
\* the other call failed.
C25_Witness ==
  /\ upc["c1"] = "returned" /\ uapplied["c1"].kind = "update"
  /\ Len(store) >= 2
  /\ pageWithId(uapplied["c1"].page_id).properties["Question Text"]
       = unote["c1"].questionText
  /\ upc["c2"] = "thrown" /\ uwrite["c2"].kind # "none"

(***************************************************************************)
(* One call of upsertQuestionNote and calls of getAllQuestions: what was   *)
(* written is read back.                                                   *)
(***************************************************************************)
\* A valid note with a choice that is a substring of the choice before it.
NoteS ==
  [makeNote(<< <<"a", "b">>, <<"a">> >>, 1, << <<"e">>, <<>> >>,
            << <<"p">> >>, <<>>)
     EXCEPT !.questionText = <<"s">>]

ReadBackNotes == SubmittedNotes \cup { NoteS }

ReadBackInit ==
  /\ store \in InitialStores
  /\ schema = AllProperties
  /\ started = MaxCalls - 1
  /\ UpsertIdle
  /\ scans = 0
  /\ ScanIdle
  /\ CodecOff
  /\ NormOff
  /\ PipeOff

ReadBackNext ==
  \/ ScanStart
  \/ ScanRequest
  \/ ScanAnswered
  \/ ScanFailed
  \/ ScanReturn
  \/ \E note \in ReadBackNotes : UpsertStart(Writer, note)
  \/ FindAnswered(Writer)
  \/ FindFailed(Writer)
  \/ WriteApplied(Writer)
  \/ WriteFailed(Writer)

ReadBackSpec == ReadBackInit /\ [][ReadBackNext]_vars

\* The call of upsertQuestionNote returned before the call of
\* getAllQuestions began, which returned too, and nothing was written since.
ReadAfterWrite ==
  upc[Writer] = "returned" /\ spc = "returned" /\ ~sdirty

\* C26 (as claimed): write-then-read visibility.  For every valid note n,
\* after upsertQuestionNote(n) succeeded and with no other writer,
\* getAllQuestions returns a list holding a note with the questionText of n
\* that equals n on all required fields.
C26_WriteThenRead ==
  (ReadAfterWrite /\ ValidNote(unote[Writer]))
    => \E i \in 1..Len(questions) :
         /\ questions[i].questionText = unote[Writer].questionText
         /\ RequiredFieldsEqual(questions[i], unote[Writer])

(***************************************************************************)
(* getAllQuestions under fair scheduling: the event loop resumes a call    *)
(* that can go on, and the database answers every page request, with a     *)
(* response or with a failure.                                             *)
(***************************************************************************)
ScanLiveNext ==
  \/ ScanStart
  \/ ScanRequest
  \/ ScanAnswered
  \/ ScanFailed
  \/ ScanReturn

ScanLiveSpec ==
  /\ ScanInit
  /\ [][ScanLiveNext]_vars
  /\ WF_vars(ScanRequest)
  /\ WF_vars(ScanFailed \/ ScanAnswered)
  /\ WF_vars(ScanReturn)

\* C27: scan termination.  getAllQuestions terminates for every store of
\* finitely many pages: a call that began returns or throws; and a page
\* request after the first asks for pages beyond every page visited, so a
\* response with has_more true never has a visited page requested again.
C27_ScanTerminates ==
  /\ [](spc = "awaiting" /\ nreq > 1 => sreq > Len(scovered))
  /\ (spc \in {"loop", "awaiting"}) ~> (spc \in {"returned", "thrown"})

\* A call returned after two page requests of a store of three pages.
C27_Witness ==
  /\ spc = "returned" /\ ~sfailed /\ nreq = 2 /\ nresp = 2
  /\ Len(store) = 3 /\ Len(scovered) = 3

(***************************************************************************)
(* The server action createExamQuestionNote: getEnvVars, then              *)
(* CreateSaaNoteUseCase.execute, which awaits the analysis of the Gemini   *)
(* client and then upsertQuestionNote; the catch clause of the action      *)
(* turns every error into a result.                                        *)
(***************************************************************************)
EnvVarNames == { "GEMINI_API_KEY", "NOTION_API_KEY", "NOTION_DATABASE_ID" }

\* The environments the action may run in: the variables that are set to a
\* non-empty value.
EnvSettings == SUBSET EnvVarNames

\* An environment check that accepts every environment.
noEnvError(env) == <<>>

\* getEnvVars: the message of the error it throws, <<>> when it returns.
getEnvVarsError(env) ==
  IF "GEMINI_API_KEY" \notin env THEN <<"GEMINI_API_KEY", " is not set">>
  ELSE IF "NOTION_API_KEY" \notin env THEN <<"NOTION_API_KEY", " is not set">>
  ELSE IF "NOTION_DATABASE_ID" \notin env
       THEN <<"NOTION_DATABASE_ID", " is not set">>
  ELSE <<>>

\* The messages of the errors analyzeQuestion throws.
AnalysisFailures ==
  { <<"Failed to parse JSON response: ", "Unexpected end of JSON input">>,
    <<"Schema validation failed: ", "correctAnswer: Required">> }

\* return { success: false, error: error.message }
failureResult(message) ==
  [success |-> FALSE, notionPageId |-> 0, error |-> message]

\* getEnvVars runs; when it throws, the catch clause returns the failure;
\* otherwise the clients are made and execute calls analyzeQuestion.
CheckEnvironment ==
  /\ ppc = "called"
  /\ IF getEnvVarsError(penv) # <<>>
     THEN /\ presult' = failureResult(getEnvVarsError(penv))
          /\ ppc' = "done"
          /\ plog' = plog
     ELSE /\ plog' = Append(plog, "analyzeQuestion")
          /\ ppc' = "executing"
          /\ presult' = presult
  /\ UNCHANGED <<penv, cpc, cnote, cpage, cedited, cresult, nvars, uvars, svars>>

\* analyzeQuestion throws; execute rethrows and the catch clause of the
\* action returns the failure.
AnalysisFailed ==
  /\ ppc = "executing"
  /\ upc[Writer] = "idle"
  /\ \E message \in AnalysisFailures : presult' = failureResult(message)
  /\ ppc' = "done"
  /\ UNCHANGED <<penv, plog, cpc, cnote, cpage, cedited, cresult, nvars,
                 uvars, svars>>

\* analyzeQuestion returns the analysis; execute makes the note of it and
\* calls upsertQuestionNote.
AnalysisAnswered ==
  /\ ppc = "executing"
  /\ upc[Writer] = "idle"
  /\ \E note \in Notes : UpsertStart(Writer, note)

\* upsertQuestionNote returned the identifier; the action returns it.
ExecuteReturned ==
  /\ ppc = "executing"
  /\ upc[Writer] = "returned"
  /\ presult' = [success |-> TRUE, notionPageId |-> uresult[Writer],
                 error |-> <<>>]
  /\ ppc' = "done"
  /\ UNCHANGED <<penv, plog, cpc, cnote, cpage, cedited, cresult, nvars,
                 uvars, svars>>

\* upsertQuestionNote threw; execute rethrows and the catch clause of the
\* action returns the failure.
ExecuteThrew ==
  /\ ppc = "executing"
  /\ upc[Writer] = "thrown"
  /\ presult' = failureResult(uerror[Writer].message)
  /\ ppc' = "done"
  /\ UNCHANGED <<penv, plog, cpc, cnote, cpage, cedited, cresult, nvars,
                 uvars, svars>>

PipeInit ==
  /\ ppc = "called"
  /\ penv \in EnvSettings
  /\ plog = <<>>
  /\ presult = Null
  /\ store \in InitialStores
  /\ schema \in { AllProperties, RequiredProperties }
  /\ started = MaxCalls - 1
  /\ UpsertIdle
  /\ scans = MaxScans
  /\ ScanIdle
  /\ CodecOff
  /\ NormOff

PipeNext ==
  \/ CheckEnvironment
  \/ AnalysisFailed
  \/ AnalysisAnswered
  \/ FindAnswered(Writer)
  \/ FindFailed(Writer)
  \/ WriteApplied(Writer)
  \/ WriteFailed(Writer)
  \/ ExecuteReturned
  \/ ExecuteThrew

PipeSpec == PipeInit /\ [][PipeNext]_vars

(***************************************************************************)
(* Properties of upsertQuestionNote with one caller (specification         *)
(* WriteSpec).                                                             *)
(***************************************************************************)
\* C11 (as claimed): a note that breaks a data-model invariant is rejected
\* with an error before any query, create or update is sent to the store.
C11_ValidationFirst ==
  \A c \in Callers :
    (upc[c] # "idle" /\ ~ValidNote(unote[c]))
      => (upc[c] = "thrown" /\ ulog[c] = <<>>)

\* The failure's message tells of a missing property.
NamesMissingProperty(failure) == Includes(failure, <<IsNotAProperty>>)

\* The message is the schema-mismatch error for the failure: it names the
\* properties the failure names and lists the remediation steps.
IsSchemaMismatchError(failure, message) ==
  /\ Includes(message, <<SchemaMismatchHeader>>)
  /\ Includes(message, <<SchemaMismatchRemedy>>)
  /\ \A i \in 1..Len(failure) :
       failure[i] \in AllProperties => Includes(message, <<failure[i]>>)

\* C12 (as claimed): whenever the message of a store failure tells of a
\* missing property, during a write of upsertQuestionNote or a read of
\* getAllQuestions, the error given to the caller is the schema-mismatch
\* error naming the missing fields and the remediation steps.
C12_SchemaMismatchTranslated ==
  /\ \A c \in Callers :
       (upc[c] = "thrown" /\ NamesMissingProperty(uerror[c].failure))
         => IsSchemaMismatchError(uerror[c].failure, uerror[c].message)
  /\ (spc = "thrown" /\ NamesMissingProperty(serror.failure))
       => IsSchemaMismatchError(serror.failure, serror.message)

\* C13: write errors propagate.  When the create or the update fails,
\* upsertQuestionNote returns no identifier and throws an error whose
\* message is "Notion API error: " followed by the failure's message, or by
\* its translation; the write is sent once.
C13_WriteErrorsPropagate ==
  \A c \in Callers :
    upc[c] = "thrown" =>
      /\ uresult[c] = 0
      /\ uapplied[c] = NoRequest
      /\ uerror[c].failure # <<>>
      /\ Head(uerror[c].message) = "Notion API error: "
      /\ IF NamesMissingProperty(uerror[c].failure)
         THEN IsSchemaMismatchError(uerror[c].failure, Tail(uerror[c].message))
         ELSE Tail(uerror[c].message) = uerror[c].failure
      /\ Cardinality({ i \in 1..Len(ulog[c]) : ulog[c][i] \in {"update", "create"} }) = 1
      /\ ulog[c][Len(ulog[c])] = "writeFailed"

C13_Witness ==
  \E c \in Callers :
    /\ upc[c] = "thrown"
    /\ NamesMissingProperty(uerror[c].failure)
    /\ uwrite[c].kind = "update"

\* The call failed because the database lacks a property.
FailedForMissingProperty(c) ==
  upc[c] = "thrown" /\ NamesMissingProperty(uerror[c].failure)

firstTitled(key) ==
  LET hits == { i \in 1..Len(store) : Includes(titleOf(store[i]), key) }
  IN IF hits = {} THEN 0
     ELSE store[CHOOSE i \in hits : \A j \in hits : i <= j].id

\* C18: match key and first hit.  findExistingPage is called with the first
\* 50 characters of note.questionText (the whole text when shorter),
\* queries for the records whose title contains that key, and returns the
\* identifier of the first record of the result, or null when it is empty.
C18_MatchKeyFirstHit ==
  \A c \in Callers :
    (upc[c] = "writing" /\ uanswer[c] >= 0) =>
      LET text == unote[c].questionText
          key == [i \in 1..Min(Len(text), SearchKeyLength) |-> text[i]]
      IN existingPageId[c] = firstTitled(key)

C18_Witness ==
  \E c \in Callers :
    /\ upc[c] = "writing" /\ uanswer[c] >= 0
    /\ Len(unote[c].questionText) > SearchKeyLength
    /\ existingPageId[c] > 0
    /\ titleOf(pageWithId(existingPageId[c])) # unote[c].questionText

\* C19 (as claimed): prefix match only.  findExistingPage reports a record,
\* and upsertQuestionNote overwrites it, only when the record's title
\* begins with the note's search key.
C19_PrefixMatchOnly ==
  \A c \in Callers :
    (upc[c] = "writing" /\ existingPageId[c] > 0) =>
      StartsWith(titleOf(pageWithId(existingPageId[c])), searchKey(unote[c]))

(***************************************************************************)
(* Properties of getAllQuestions (specification ScanSpec).                 *)
(***************************************************************************)
\* The notes of the pages that parseNotionPage does not turn into null, in
\* the order of the pages.
decodableNotes(pages) ==
  LET parsed == [i \in 1..Len(pages) |-> parseNotionPage(pages[i])]
  IN SelectSeq(parsed, LAMBDA n : n # Null)

\* C9: scan resilience.  getAllQuestions returns, in store order, exactly
\* the notes of the pages whose decode is not null; a page that decodes to
\* null, or whose decode throws, is skipped and raises no error: the call
\* throws only when a page request failed.
C9_ScanResilience ==
  /\ (spc = "returned" /\ ~sdirty) => questions = decodableNotes(store)
  /\ spc = "thrown" => sfailed

\* A page of three records whose second has an empty title gives two notes.
C9_Witness ==
  /\ spc = "returned" /\ ~sdirty /\ nresp = 1
  /\ store = << pageOf(1, NoteA), untitledPage(2), pageOf(3, NoteA) >>
  /\ Len(questions) = 2

\* C10: exhaustive sequential pagination.  Page requests are issued one at
\* a time, the first without a cursor and each later one with the
\* next_cursor of the response before it, until a response has has_more
\* false; the result holds every decodable record of every page once, and
\* when the store is not written meanwhile the pages are the whole store.
C10_Pagination ==
  /\ nreq = nresp + (IF spc = "awaiting" \/ sfailed THEN 1 ELSE 0)
  /\ (spc = "awaiting" /\ nreq = 1) => sreq = 0
  /\ (spc = "awaiting" /\ nreq > 1) =>
       slast.has_more /\ slast.next_cursor # 0 /\ sreq = slast.next_cursor
  /\ (spc = "loop" /\ nresp > 0 /\ slast.has_more) =>
       hasMore /\ startCursor = slast.next_cursor
  /\ spc = "returned" => nresp >= 1 /\ ~slast.has_more
  /\ spc \in {"loop", "awaiting", "returned"} =>
       questions = decodableNotes(scovered)
  /\ (spc = "returned" /\ ~sdirty) => scovered = store

C10_Witness ==
  /\ spc = "returned" /\ ~sdirty /\ nresp = 3
  /\ Len(store) = 3 /\ Len(questions) = 2

\* C28: the scan is all-or-nothing on read failure.  If a page request of
\* getAllQuestions fails, the call throws "Failed to fetch questions from
\* Notion: <message>" and returns no list, whatever was decoded from earlier
\* pages; it returns a list only when every page request was answered.
C28_AllOrNothing ==
  /\ sfailed => spc = "thrown"
  /\ spc = "thrown"
       => /\ sfailed
          /\ serror.failure \in readFailures
          /\ serror.message
               = <<"Failed to fetch questions from Notion: ">> \o serror.failure
  /\ spc = "returned" => (~sfailed /\ nresp = nreq /\ serror = NoError)

\* The second page request failed after the first page gave a note.
C28_Witness ==
  /\ spc = "thrown" /\ nresp = 1 /\ nreq = 2
  /\ Len(questions) >= 1

\* The message of the error of getEnvVars in environment env.
FirstNotSet(env, message) ==
  \/ "GEMINI_API_KEY" \notin env /\ message = <<"GEMINI_API_KEY", " is not set">>
  \/ /\ "GEMINI_API_KEY" \in env /\ "NOTION_API_KEY" \notin env
     /\ message = <<"NOTION_API_KEY", " is not set">>
  \/ /\ {"GEMINI_API_KEY", "NOTION_API_KEY"} \subseteq env
     /\ "NOTION_DATABASE_ID" \notin env
     /\ message = <<"NOTION_DATABASE_ID", " is not set">>

\* C29: fail-fast pipeline ordering.  createExamQuestionNote checks the
\* environment, then has the question analysed, then upserts, in that
\* order; a stage that fails prevents the external calls of every later
\* stage; the action never throws but returns success = false with the
\* error message; and it returns success = true with a notionPageId only
\* when upsertQuestionNote returned that identifier.
C29_FailFast ==
  /\ ppc \in {"called", "executing", "done"}
  /\ plog # <<>> => (penv = EnvVarNames /\ plog = <<"analyzeQuestion">>)
  /\ ulog[Writer] # <<>> => plog = <<"analyzeQuestion">>
  /\ (ppc = "done" /\ penv # EnvVarNames)
       => /\ plog = <<>> /\ ulog[Writer] = <<>>
          /\ ~presult.success
          /\ FirstNotSet(penv, presult.error)
  /\ (ppc = "done" /\ presult.error \in AnalysisFailures)
       => (~presult.success /\ ulog[Writer] = <<>> /\ store \in InitialStores)
  /\ (ppc = "done" /\ upc[Writer] = "thrown")
       => (~presult.success /\ presult.error = uerror[Writer].message)
  /\ (ppc = "done" /\ ~presult.success)
       => (presult.error # <<>> /\ presult.notionPageId = 0)
  /\ (ppc = "done" /\ presult.success)
       => /\ upc[Writer] = "returned"
          /\ uresult[Writer] > 0
          /\ presult.notionPageId = uresult[Writer]

\* The action returned the identifier of the page upsertQuestionNote
\* wrote, after the analysis.
C29_Witness ==
  /\ ppc = "done" /\ presult.success
  /\ plog = <<"analyzeQuestion">>
  /\ ulog[Writer] # <<>>
  /\ presult.notionPageId = uapplied[Writer].page_id

\* The normalization that was not run.
otherNormalization(impl) == IF impl = "gemini" THEN "notion" ELSE "gemini"

\* C30 (as claimed): the two category normalizations agree.  For every
\* string, the normalization of parseNotionPage (lower case, then a hyphen
\* for each whitespace run) returns what the normalization of the Gemini
\* client returns (lookup table, else the same fallback).
C30_NormalizationsAgree ==
  npc \in {"once", "twice"}
    => nonce = normalizeWith(otherNormalization(nimpl), ncat)

=============================================================================
